---- MODULE Spec2Model ----
(***************************************************************************)
(* State-machine model of the SnakeGame component of src/src/App.js.       *)
(*                                                                         *)
(* The component's React state (snake, food, direction, gameOver, score,   *)
(* isPaused, touchStart, touchEnd) and its refs (speed, lastRenderTimeRef, *)
(* requestRef) are the variables.  Every event handler is one action.  A   *)
(* handler's state updates, the re-render they cause and the effect of     *)
(* lines 148-151 (cancel the registered frame callback, register the new   *)
(* gameLoop) are one step: handlers therefore always read the values of    *)
(* the latest render, and the values a gameLoop closure captured are the   *)
(* values of the state at the moment its callback fires (captured records  *)
(* them, and C18 checks that they are never outdated).  The updater        *)
(* passed to setSnake (lines 114-139) runs once per tick, as in a          *)
(* production build.  Math.random (lines 39-40) is a free choice among     *)
(* the cells; a run of draws that never leaves the snake although a cell   *)
(* is free has probability zero and is not modelled.                       *)
(*                                                                         *)
(* The board of the source is 25 x 25 with the snake starting on (10,10)   *)
(* and the first food on (5,5).  The model divides these three numbers by  *)
(* Scale, which gives a board small enough for the snake to fill it.       *)
(***************************************************************************)
EXTENDS Integers, Sequences, FiniteSets

VARIABLES
    snake,       \* line 21: sequence of cells, head first
    food,        \* line 22
    direction,   \* line 23
    gameOver,    \* line 24
    score,       \* line 25
    isPaused,    \* line 26
    touchStart,  \* line 27: a point or NoTouch (null)
    touchEnd,    \* line 28: a point or NoTouch (null)
    speed,       \* line 32: speed.current, the tick interval in ms
    elapsed,     \* line 31: timestamp of the latest frame callback that read
                 \*          the clock, minus lastRenderTimeRef.current
    pendingFrames, \* line 34: the callbacks registered and neither fired nor
                 \*          cancelled; requestRef.current is the latest of them
    captured,    \* lines 47, 145: the values the closure of the current
                 \*          gameLoop (and of its generateFood) holds
    mounted,     \* the component is mounted
    deltaTime,   \* history: the deltaTime of line 111 when the latest step
                 \*          was a frame callback that got there, else 0
    pausedFrom,  \* history: the fields other than isPaused as they were when
                 \*          the latest toggle paused the game, NoSnap once any
                 \*          step other than a toggle has followed
    ev           \* history: the handler that ran last and the branch it took

vars == <<snake, food, direction, gameOver, score, isPaused, touchStart,
          touchEnd, speed, elapsed, pendingFrames, captured, mounted,
          deltaTime, pausedFrom, ev>>

\* The fields the specification calls the game state.
gameState == <<snake, food, direction, gameOver, score, isPaused, speed>>

----------------------------------------------------------------------------
\* Bounds of the model.

\* The board, the start cell and the first food of the source, divided by Scale.
Scale == 9

\* Milliseconds between two frame callbacks: FrameMs, or a gap of four
\* FrameMs, longer than two tick intervals.
FrameMs == 50

\* No food is eaten once the score is MaxScore.  (A reset that leaves the
\* score standing lets it pass the number of cells of the board.)
MaxScore == 3

----------------------------------------------------------------------------
\* Constants of the program.

GRID_SIZE == 25 \div Scale

INITIAL_SPEED == 100

MIN_SPEED == 50

SPEED_STEP == 2

Cell(cx, cy) == [x |-> cx, y |-> cy]

Cells == {Cell(cx, cy) : cx \in 0 .. GRID_SIZE - 1, cy \in 0 .. GRID_SIZE - 1}

INITIAL_SNAKE == <<Cell(10 \div Scale, 10 \div Scale)>>

INITIAL_FOOD == Cell(5 \div Scale, 5 \div Scale)

Up == Cell(0, -1)

Down == Cell(0, 1)

Left == Cell(-1, 0)

Right == Cell(1, 0)

Headings == {Up, Down, Left, Right}

NoDir == Cell(0, 0)

NoTouch == Cell(-1, -1)

DirectionKeys == {"ArrowUp", "w", "ArrowDown", "s", "ArrowLeft", "a", "ArrowRight", "d"}

DIRECTIONS == [k \in DirectionKeys |->
                 CASE k \in {"ArrowUp", "w"} -> Up
                   [] k \in {"ArrowDown", "s"} -> Down
                   [] k \in {"ArrowLeft", "a"} -> Left
                   [] k \in {"ArrowRight", "d"} -> Right]

\* The keys of the model: the mapped keys, space, and one key without a mapping.
Keys == DirectionKeys \cup {" ", "x"}

\* Client coordinates of touches.  Lines 83-84 read only the difference of
\* the two points: a finger goes down on TouchStarts and moves to TouchEnds,
\* which gives the differences (2,1), (-1,0), (1,1), (0,-2), (-1,2) and (0,0).
TouchStarts == {Cell(2, 2)}

TouchEnds == {Cell(4, 3), Cell(1, 2), Cell(3, 3), Cell(2, 0), Cell(1, 4), Cell(2, 2)}

NoSnap == <<>>

FrameGaps == {FrameMs, 4 * FrameMs}

----------------------------------------------------------------------------
\* Helpers.

Range(s) == {s[i] : i \in 1 .. Len(s)}

Front(s) == SubSeq(s, 1, Len(s) - 1)

Max(a, b) == IF a >= b THEN a ELSE b

Abs(n) == IF n < 0 THEN -n ELSE n

Opposite(h) == Cell(-h.x, -h.y)

\* Lines 37-47: the cells generateFood can return when its closure holds the
\* snake `occupied`.  It redraws until the drawn cell is on no segment, so it
\* returns any free cell; with no free cell every draw recurses and the call
\* returns nothing.
generateFood(occupied) == {c \in Cells : c \notin Range(occupied)}

\* Lines 115-118.
NewHead(prevSnake, dir) == Cell(prevSnake[1].x + dir.x, prevSnake[1].y + dir.y)

\* Lines 122-123 with > for >=: the row and the column past the last one pass.
CollidesPastEdge(head, prevSnake) ==
    \/ head.x < 0 \/ head.x > GRID_SIZE
    \/ head.y < 0 \/ head.y > GRID_SIZE
    \/ \E i \in 1 .. Len(prevSnake) : prevSnake[i].x = head.x /\ prevSnake[i].y = head.y

\* Lines 121-125 with the tail spared: the last segment is not looked at.
CollidesSparingTail(head, prevSnake) ==
    \/ head.x < 0 \/ head.x >= GRID_SIZE
    \/ head.y < 0 \/ head.y >= GRID_SIZE
    \/ \E i \in 1 .. Len(prevSnake) - 1 : prevSnake[i].x = head.x /\ prevSnake[i].y = head.y

\* Lines 121-125.
Collides(head, prevSnake) ==
    \/ head.x < 0 \/ head.x >= GRID_SIZE
    \/ head.y < 0 \/ head.y >= GRID_SIZE
    \/ \E i \in 1 .. Len(prevSnake) : prevSnake[i].x = head.x /\ prevSnake[i].y = head.y

\* Line 131.
Eats(head, f) == head.x = f.x /\ head.y = f.y

\* Lines 130-138 without the pop of line 136.
AdvanceKeepingTail(head, prevSnake, grow) == <<head>> \o prevSnake

\* Lines 130, 136-138: the snake after a move that eats (grow) or does not.
Advance(head, prevSnake, grow) ==
    IF grow THEN <<head>> \o prevSnake ELSE <<head>> \o Front(prevSnake)

\* Line 134, with the score the gameLoop closure captured.
NextSpeed(capturedScore) == Max(MIN_SPEED, INITIAL_SPEED - (capturedScore * SPEED_STEP))

\* Line 59 with - for +: the turn is refused when it repeats the heading.
TurnAllowedSignSlip(cur, new) == cur.x - new.x # 0 \/ cur.y - new.y # 0

\* Line 59: the turn is accepted.
TurnAllowed(cur, new) == cur.x + new.x # 0 \/ cur.y + new.y # 0

\* Lines 87-101 with >= for > in line 87: a tie counts as horizontal.
SwipeHeadingTieAcross(xDiff, yDiff, cur) ==
    IF Abs(xDiff) >= Abs(yDiff)
    THEN IF xDiff > 0 /\ cur.x # -1 THEN Right
         ELSE IF xDiff < 0 /\ cur.x # 1 THEN Left
         ELSE cur
    ELSE IF yDiff > 0 /\ cur.y # -1 THEN Down
         ELSE IF yDiff < 0 /\ cur.y # 1 THEN Up
         ELSE cur

\* Lines 87-101: the heading after a swipe of (xDiff, yDiff) while heading cur.
SwipeHeading(xDiff, yDiff, cur) ==
    IF Abs(xDiff) > Abs(yDiff)
    THEN IF xDiff > 0 /\ cur.x # -1 THEN Right
         ELSE IF xDiff < 0 /\ cur.x # 1 THEN Left
         ELSE cur
    ELSE IF yDiff > 0 /\ cur.y # -1 THEN Down
         ELSE IF yDiff < 0 /\ cur.y # 1 THEN Up
         ELSE cur

\* The heading lines 87-101 propose before the reversal guards, NoDir for none.
SwipeCandidate(xDiff, yDiff) ==
    IF Abs(xDiff) > Abs(yDiff)
    THEN IF xDiff > 0 THEN Right ELSE IF xDiff < 0 THEN Left ELSE NoDir
    ELSE IF yDiff > 0 THEN Down ELSE IF yDiff < 0 THEN Up ELSE NoDir

----------------------------------------------------------------------------
\* Lines 145, 47: what the closure of gameLoop holds, the snake through the
\* closure of generateFood.
Closure(sn, f, d, g, sc, p) ==
    [snake |-> sn, food |-> f, direction |-> d, gameOver |-> g, score |-> sc,
     isPaused |-> p]

\* Line 145 with isPaused left out of the dependencies.
DepsChangedSparingPause(old, new) ==
    \/ old.direction # new.direction \/ old.food # new.food
    \/ old.gameOver # new.gameOver
    \/ old.snake # new.snake \/ old.score # new.score

\* Lines 145, 47: a dependency of gameLoop differs from the one its closure holds.
DepsChanged(old, new) ==
    \/ old.direction # new.direction \/ old.food # new.food
    \/ old.gameOver # new.gameOver \/ old.isPaused # new.isPaused
    \/ old.snake # new.snake \/ old.score # new.score

\* Line 150: cancelAnimationFrame(requestRef.current), with n callbacks
\* registered; the callback requestRef.current names is the latest of them.
Cancel(n) == IF n > 0 THEN n - 1 ELSE 0

\* Lines 144, 149: requestAnimationFrame.
Request(n) == n + 1

\* Lines 148-151 without the cleanup of line 150.
ReregisterWithoutCancel(n) == Request(n)

\* Lines 148-151: the cleanup of the old effect, then the new effect.
Reregister(n) == Request(Cancel(n))

\* The re-render after a handler that left n callbacks registered, and its
\* effects.  fresh: the handler set snake or food to a newly built object,
\* which replaces generateFood and gameLoop whatever its value.  (A
\* setDirection with an equal heading is taken as no change.)
Render(fresh, n) ==
    LET new == Closure(snake', food', direction', gameOver', score', isPaused')
    IN IF fresh \/ DepsChanged(captured, new)
       THEN captured' = new /\ pendingFrames' = Reregister(n)
       ELSE captured' = captured /\ pendingFrames' = n

\* Lines 21-34, 148-149: the state after the first render and its effects.
Init ==
    /\ snake = INITIAL_SNAKE
    /\ food = INITIAL_FOOD
    /\ direction = Right
    /\ gameOver = FALSE
    /\ score = 0
    /\ isPaused = FALSE
    /\ touchStart = NoTouch
    /\ touchEnd = NoTouch
    /\ speed = INITIAL_SPEED
    /\ elapsed = 0
    /\ pendingFrames = Request(0)
    /\ captured = Closure(INITIAL_SNAKE, INITIAL_FOOD, Right, FALSE, 0, FALSE)
    /\ mounted = TRUE
    /\ deltaTime = 0
    /\ pausedFrom = NoSnap
    /\ ev = "init"

\* Line 109 without isPaused.
HaltedWhenOver == captured.gameOver

\* Line 109: the callback returns at once.
Halted == captured.gameOver \/ captured.isPaused

\* Line 113 with the test left out.
TickDueAlways(dt) == TRUE

\* Line 113.
TickDue(dt) == dt >= speed

\* The React state other than isPaused, and the tick interval.
Snapshot == <<snake, food, direction, gameOver, score, speed, touchStart, touchEnd>>

\* Lines 108-109: a registered callback fires while the game is over or
\* paused; it returns without registering another.
FrameHalt ==
    /\ mounted /\ pendingFrames > 0
    /\ Halted
    /\ pendingFrames' = pendingFrames - 1
    /\ deltaTime' = 0
    /\ pausedFrom' = NoSnap
    /\ ev' = "halt"
    /\ UNCHANGED <<snake, food, direction, gameOver, score, isPaused,
                   touchStart, touchEnd, speed, elapsed, captured, mounted>>

\* Lines 111-113, 144: the callback fires before the tick interval has passed
\* and registers itself again.
FrameIdle(gap) ==
    /\ mounted /\ pendingFrames > 0
    /\ ~Halted
    /\ ~TickDue(elapsed + gap)
    /\ elapsed' = elapsed + gap
    /\ deltaTime' = elapsed + gap
    /\ pendingFrames' = Request(pendingFrames - 1)
    /\ pausedFrom' = NoSnap
    /\ ev' = "idle"
    /\ UNCHANGED <<snake, food, direction, gameOver, score, isPaused,
                   touchStart, touchEnd, speed, captured, mounted>>

\* Lines 113-144: a tick.  The closure of gameLoop holds direction, food and
\* score, and that of generateFood holds snake, all as of the latest render:
\* the new food avoids the snake of before the move and the new interval is
\* computed from the score of before the increment.
FrameTick(gap) ==
    /\ mounted /\ pendingFrames > 0
    /\ ~Halted
    /\ TickDue(elapsed + gap)
    /\ LET head == NewHead(snake, captured.direction) IN
         IF Collides(head, snake)
         THEN /\ gameOver' = TRUE
              /\ ev' = "crash"
              /\ UNCHANGED <<snake, food, score, speed>>
         ELSE IF Eats(head, captured.food)
         THEN /\ score < MaxScore
              /\ food' \in generateFood(captured.snake)
              /\ score' = score + 1
              /\ speed' = NextSpeed(captured.score)
              /\ snake' = Advance(head, snake, TRUE)
              /\ ev' = "eat"
              /\ UNCHANGED gameOver
         ELSE /\ snake' = Advance(head, snake, FALSE)
              /\ ev' = "move"
              /\ UNCHANGED <<food, score, speed, gameOver>>
    /\ elapsed' = 0
    /\ deltaTime' = elapsed + gap
    /\ pausedFrom' = NoSnap
    /\ UNCHANGED <<direction, isPaused, touchStart, touchEnd, mounted>>
    /\ Render(snake' # snake, Request(pendingFrames - 1))

gameLoop == FrameHalt \/ \E gap \in FrameGaps : FrameIdle(gap) \/ FrameTick(gap)

\* Lines 52 and 175: setIsPaused(prev => !prev).
TogglePause ==
    /\ isPaused' = ~isPaused
    /\ pausedFrom' = IF isPaused THEN pausedFrom ELSE Snapshot
    /\ ev' = "toggle"

\* Lines 50-63.  ev tells a key that asks for the opposite of the heading
\* ("reversal") from the other mapped keys ("turn").
handleKeyPress(k) ==
    /\ mounted
    /\ IF k = " "
       THEN /\ TogglePause
            /\ UNCHANGED direction
       ELSE IF k \in DOMAIN DIRECTIONS
       THEN /\ IF TurnAllowed(direction, DIRECTIONS[k])
               THEN direction' = DIRECTIONS[k]
               ELSE UNCHANGED direction
            /\ ev' = IF DIRECTIONS[k] = Opposite(direction) THEN "reversal" ELSE "turn"
            /\ pausedFrom' = NoSnap
            /\ UNCHANGED isPaused
       ELSE /\ ev' = "other"
            /\ pausedFrom' = NoSnap
            /\ UNCHANGED <<direction, isPaused>>
    /\ deltaTime' = 0
    /\ UNCHANGED <<snake, food, gameOver, score, touchStart, touchEnd, speed,
                   elapsed, mounted>>
    /\ Render(FALSE, pendingFrames)

\* Lines 175-177: the Pause/Resume button.
pauseButton ==
    /\ mounted
    /\ TogglePause
    /\ deltaTime' = 0
    /\ UNCHANGED <<snake, food, direction, gameOver, score, touchStart,
                   touchEnd, speed, elapsed, mounted>>
    /\ Render(FALSE, pendingFrames)

\* Lines 66-71.  The touch points are no dependency of gameLoop.
handleTouchStart(p) ==
    /\ mounted
    /\ touchStart' = p
    /\ deltaTime' = 0
    /\ pausedFrom' = NoSnap
    /\ ev' = "other"
    /\ UNCHANGED <<snake, food, direction, gameOver, score, isPaused, touchEnd,
                   speed, elapsed, pendingFrames, captured, mounted>>

\* Lines 73-78: the finger that went down moves.
handleTouchMove(p) ==
    /\ mounted
    /\ touchStart # NoTouch
    /\ touchEnd' = p
    /\ deltaTime' = 0
    /\ pausedFrom' = NoSnap
    /\ ev' = "other"
    /\ UNCHANGED <<snake, food, direction, gameOver, score, isPaused, touchStart,
                   speed, elapsed, pendingFrames, captured, mounted>>

\* Lines 80-105: the finger that went down is lifted.  ev tells a touch that
\* never moved ("tap") and a swipe that asks for the opposite of the heading
\* ("backswipe") from the other swipes ("swipe").
handleTouchEnd ==
    /\ mounted
    /\ touchStart # NoTouch
    /\ IF touchStart = NoTouch \/ touchEnd = NoTouch
       THEN /\ ev' = "tap"
            /\ UNCHANGED <<direction, touchStart, touchEnd>>
       ELSE LET xDiff == touchEnd.x - touchStart.x
                yDiff == touchEnd.y - touchStart.y
            IN /\ direction' = SwipeHeading(xDiff, yDiff, direction)
               /\ touchStart' = NoTouch
               /\ touchEnd' = NoTouch
               /\ ev' = IF SwipeCandidate(xDiff, yDiff) = Opposite(direction)
                        THEN "backswipe" ELSE "swipe"
    /\ deltaTime' = 0
    /\ pausedFrom' = NoSnap
    /\ UNCHANGED <<snake, food, gameOver, score, isPaused, speed, elapsed, mounted>>
    /\ Render(FALSE, pendingFrames)

\* Lines 160-167.  generateFood is the one of the current render: its closure
\* holds the snake of before the reset.  When that snake leaves no cell free
\* the call of line 162 never returns a cell: the recursion exhausts the
\* stack and the handler is left with line 161 alone done ("overflow").
resetGame ==
    /\ mounted
    /\ snake' = INITIAL_SNAKE
    /\ IF generateFood(captured.snake) = {}
       THEN /\ ev' = "overflow"
            /\ UNCHANGED <<food, direction, gameOver, score, speed>>
       ELSE /\ food' \in generateFood(captured.snake)
            /\ direction' = Right
            /\ gameOver' = FALSE
            /\ score' = 0
            /\ speed' = INITIAL_SPEED
            /\ ev' = "reset"
    /\ deltaTime' = 0
    /\ pausedFrom' = NoSnap
    /\ UNCHANGED <<isPaused, touchStart, touchEnd, elapsed, mounted>>
    /\ Render(TRUE, pendingFrames)

\* Lines 150, 156: the component is torn down; the cleanups cancel the
\* registered callback and remove the key listener.
unmount ==
    /\ mounted
    /\ mounted' = FALSE
    /\ pendingFrames' = Cancel(pendingFrames)
    /\ deltaTime' = 0
    /\ pausedFrom' = NoSnap
    /\ ev' = "unmount"
    /\ UNCHANGED <<snake, food, direction, gameOver, score, isPaused,
                   touchStart, touchEnd, speed, elapsed, captured>>

Next ==
    \/ gameLoop
    \/ \E k \in Keys : handleKeyPress(k)
    \/ pauseButton
    \/ \E p \in TouchStarts : handleTouchStart(p)
    \/ \E p \in TouchEnds : handleTouchMove(p)
    \/ handleTouchEnd
    \/ resetGame
    \/ unmount

Spec == Init /\ [][Next]_vars

\* The host fires a registered frame callback in the end, and its timestamp
\* is later than that of the callback before it.
LiveSpec == Init /\ [][Next]_vars /\ WF_vars(gameLoop)

----------------------------------------------------------------------------
\* Vocabulary of the properties.

\* The frame callbacks that were ticks, and all frame callbacks.
TickEvents == {"move", "eat", "crash"}

FrameEvents == TickEvents \cup {"idle", "halt"}

\* The two outcomes of resetGame.
ResetEvents == {"reset", "overflow"}

InGrid(c) == 0 <= c.x /\ c.x < GRID_SIZE /\ 0 <= c.y /\ c.y < GRID_SIZE

OnSnake(c, s) == c \in Range(s)

\* The head a tick computes: old head + heading.
ComputedHead == Cell(snake[1].x + direction.x, snake[1].y + direction.y)

\* The heading of the tick that moved the head off the neck, for a snake of
\* two cells or more: its latest tick put the head one step from the neck.
NeckHeading == Cell(snake[1].x - snake[2].x, snake[1].y - snake[2].y)

----------------------------------------------------------------------------
\* C1: a tick whose computed head is inside the grid and on no cell of the
\* snake puts the head there; when the head is the food cell the snake and the
\* score grow by exactly one, otherwise length, food and score stay as they
\* were; the game stays alive.
C1_FreeTickAdvances ==
    [][ (ev' \in TickEvents /\ InGrid(ComputedHead) /\ ~OnSnake(ComputedHead, snake))
        => /\ ~gameOver /\ ~isPaused
           /\ snake'[1] = ComputedHead
           /\ ~gameOver'
           /\ IF ComputedHead = food
              THEN Len(snake') = Len(snake) + 1 /\ score' = score + 1
              ELSE Len(snake') = Len(snake) /\ food' = food /\ score' = score ]_vars

\* Both kinds of free tick have happened: the snake that started with one cell
\* has eaten once and then moved on.
C1_Witness ==
    ev = "move" /\ Len(snake) = 2 /\ score = 1 /\ ~gameOver

\* C2: a tick whose computed head is outside the grid or on a cell of the
\* snake (the tail included) sets gameOver and leaves snake, food and score;
\* from then on no frame callback changes snake, food, score or speed, and
\* only resetGame clears gameOver.
C2_CollisionEndsGame ==
    [][ /\ (ev' \in TickEvents /\ (~InGrid(ComputedHead) \/ OnSnake(ComputedHead, snake)))
           => (gameOver' /\ UNCHANGED <<snake, food, score>>)
        /\ (gameOver /\ ev' \in FrameEvents) => UNCHANGED <<snake, food, score, speed>>
        /\ (gameOver /\ ~gameOver') => ev' = "reset" ]_vars

\* The snake ran into its own tail, and a frame callback has fired since.
C2_Witness ==
    /\ gameOver /\ ev = "halt"
    /\ Len(snake) >= 4 /\ ComputedHead = snake[Len(snake)]

\* C3: after a tick that ate, the new food is on no cell of the grown snake.
C3_FoodOffGrownSnake ==
    ev = "eat" => ~OnSnake(food, snake)

\* C4: resetGame yields the initial score, interval, snake and heading, with
\* gameOver and isPaused both false.
C4_ResetRestoresAll ==
    ev \in ResetEvents =>
        /\ score = 0 /\ speed = INITIAL_SPEED
        /\ snake = INITIAL_SNAKE /\ direction = Right
        /\ ~gameOver /\ ~isPaused

\* C5: the heading a tick uses is never the opposite of the heading the tick
\* before it used, so that a snake of two cells or more never runs back onto
\* its neck.
C5_NoReversalBetweenTicks ==
    [][ (ev' \in TickEvents /\ Len(snake) >= 2) => direction # Opposite(NeckHeading) ]_vars

\* C6: no directional key and no swipe turns the heading into its opposite,
\* and an input that asks for the opposite leaves the game state as it was.
C6_NoReversalByOneInput ==
    [][ /\ ev' \in {"turn", "reversal", "swipe", "backswipe"} => direction' # Opposite(direction)
        /\ ev' \in {"reversal", "backswipe"} => UNCHANGED gameState ]_vars

\* A key and a swipe asking for the opposite heading have been handled.
C6_Witness ==
    ev = "backswipe" /\ direction = Up /\ touchStart = NoTouch /\ touchEnd = NoTouch

\* C7: after a tick that ate, the interval is max(50, 100 - 2 * score) for the
\* score after the increment; it lies in 50 .. 100 and does not go up.
C7_IntervalFollowsScore ==
    [][ /\ ev' = "eat" => speed' = Max(MIN_SPEED, INITIAL_SPEED - 2 * score')
        /\ speed' \in MIN_SPEED .. INITIAL_SPEED
        /\ ev' \notin ResetEvents => speed' <= speed ]_vars

\* C8: while the game is paused or over no frame callback changes snake, food,
\* score, heading or interval; and a resume toggle directly after a pause
\* toggle leaves every field but isPaused as it was before the pause.
C8_PauseFreezes ==
    [][ /\ ((gameOver \/ isPaused) /\ ev' \in FrameEvents)
           => UNCHANGED <<snake, food, score, direction, speed>>
        /\ (ev' = "toggle" /\ ~isPaused' /\ pausedFrom' # NoSnap)
           => (Snapshot' = pausedFrom' /\ ev = "toggle") ]_vars

\* A running game was paused and resumed by two toggles in a row.
C8_Witness ==
    ev = "toggle" /\ ~isPaused /\ pausedFrom # NoSnap /\ ~gameOver /\ Len(snake) >= 2

\* C9: once the game is over nothing but resetGame changes snake, food,
\* heading, score, interval or isPaused.
C9_GameOverIsTerminal ==
    [][ (gameOver /\ ev' \notin ResetEvents)
        => UNCHANGED <<snake, food, direction, score, speed, isPaused>> ]_vars

\* C10: every call of generateFood (in a tick that eats, in resetGame) returns
\* a cell; there is no grid-full signal it could give instead.
C10_FoodPlacementReturns ==
    ev \in {"eat"} \cup ResetEvents => ev \in {"eat", "reset"}

\* The last segment of the snake.
TailCell == snake[Len(snake)]

\* C11 as amended: a tick whose computed head is the tail cell and not the
\* food cell is a fatal collision: it sets gameOver and leaves the snake.
C11_TailMoveIsFatal ==
    [][ (ev' \in TickEvents /\ ComputedHead = TailCell /\ ComputedHead # food)
        => (gameOver' /\ snake' = snake) ]_vars

\* A snake of four cells on a 2x2 block has stepped onto its tail cell.
C11_Witness ==
    /\ ev = "crash" /\ gameOver
    /\ Len(snake) = 4 /\ ComputedHead = TailCell /\ ComputedHead # food

\* C11 as claimed: a tick whose computed head is the tail cell and not the
\* food cell is not fatal; the snake advances with its length unchanged.
C11_TailMoveIsSafe ==
    [][ (ev' \in TickEvents /\ ComputedHead = TailCell /\ ComputedHead # food)
        => (~gameOver' /\ snake'[1] = ComputedHead /\ Len(snake') = Len(snake)) ]_vars

\* C12: the snake has at least one cell, no cell twice, and every cell of it
\* is inside the grid.
C12_SnakeWellFormed ==
    /\ Len(snake) >= 1
    /\ \A i, j \in 1 .. Len(snake) : snake[i] = snake[j] => i = j
    /\ \A i \in 1 .. Len(snake) : InGrid(snake[i])

\* The snake covers the board, after ticks, inputs, a pause and a reset.
C12_Witness ==
    Len(snake) = GRID_SIZE * GRID_SIZE /\ isPaused /\ ~gameOver /\ ev = "toggle"

\* C13: after resetGame the food is on no cell of the fresh snake.
C13_ResetFoodOffSnake ==
    ev = "reset" => ~OnSnake(food, snake)

\* The heading a swipe of (dx, dy) proposes: across when |dx| > |dy|, else
\* down or up by the sign of dy, NoDir for a displacement of zero.
ProposedBySwipe(dx, dy) ==
    IF Abs(dx) > Abs(dy) THEN (IF dx > 0 THEN Right ELSE Left)
    ELSE IF dy > 0 THEN Down
    ELSE IF dy < 0 THEN Up
    ELSE NoDir

\* C14: a frame callback performs a tick only when the time since the
\* previous tick is at least the tick interval, and then exactly one: the
\* snake advances by at most one cell, the score by at most one, and the
\* callback's own timestamp becomes the time of the previous tick, however
\* many intervals have passed.  A callback before the interval has passed, or
\* while the game is over or paused, leaves the game as it is.
C14_OneTickPerCallback ==
    [][ /\ ev' \in TickEvents =>
              /\ deltaTime' >= speed
              /\ elapsed' = 0
              /\ \/ snake' = snake /\ gameOver'
                 \/ /\ snake'[1] = ComputedHead
                    /\ SubSeq(snake', 2, Len(snake')) \in {snake, Front(snake)}
              /\ score' \in {score, score + 1}
        /\ ev' = "idle" =>
              /\ deltaTime' < speed
              /\ elapsed' = deltaTime'
              /\ UNCHANGED gameState
        /\ ev' = "halt" => UNCHANGED <<gameState, elapsed>> ]_vars

C14_Witness ==
    /\ ev = "move"
    /\ deltaTime >= 2 * speed
    /\ elapsed = 0
    /\ Len(snake) = 2

\* C15: a swipe sets the heading it proposes, unless it proposes none or the
\* opposite of the heading; it changes no other field of the game and clears
\* both touch points.
C15_SwipeClassification ==
    [][ ev' \in {"swipe", "backswipe"} =>
          LET p == ProposedBySwipe(touchEnd.x - touchStart.x, touchEnd.y - touchStart.y)
          IN /\ touchStart # NoTouch /\ touchEnd # NoTouch
             /\ direction' = IF p = NoDir \/ p = Opposite(direction) THEN direction ELSE p
             /\ touchStart' = NoTouch /\ touchEnd' = NoTouch
             /\ UNCHANGED <<snake, food, score, gameOver, isPaused, speed>> ]_vars

\* A swipe has been handled, has left the heading Left and cleared the points.
C15_Witness ==
    ev = "swipe" /\ direction = Left /\ touchStart = NoTouch /\ touchEnd = NoTouch

\* C16: the space key, the Pause/Resume button and a tap on the game area
\* each flip isPaused and leave the heading.
C16_EveryToggleFlipsPause ==
    [][ ev' \in {"toggle", "tap"} => (isPaused' = ~isPaused /\ direction' = direction) ]_vars

Running == mounted /\ ~gameOver /\ ~isPaused

\* C17: while the component is mounted and the game is neither over nor
\* paused a frame callback is registered, and from such a state a tick
\* follows unless the game is paused or the component torn down first.
C17_LoopKeepsRunning ==
    /\ [](Running => pendingFrames >= 1)
    /\ (Running /\ ev \notin TickEvents /\ score < MaxScore)
           ~> (ev \in TickEvents \/ isPaused \/ ~mounted)

C17_Witness ==
    /\ ev = "toggle"
    /\ Running
    /\ pendingFrames = 1
    /\ score > 0

C19_ScoreIsLengthLessOne ==
    score = Len(snake) - 1

====
